---------------------------- MODULE Spec2Model ----------------------------
(***************************************************************************)
(* Model of the Charity Recommender API core:                              *)
(*   - RateLimiter.hit            (api/app/rate_limit.py)                  *)
(*   - encode_cursor/decode_cursor (api/app/cursor.py)                     *)
(*   - recommend, filter_charities, build_query_signature, build_explain,  *)
(*     select_daily_charities      (api/app/main.py)                       *)
(***************************************************************************)
EXTENDS Integers, Sequences, FiniteSets, TLC

(***************************************************************************)
(* Bounds of the model.                                                    *)
(***************************************************************************)
NumThreads == 2
MaxMono == 1
MaxRequestsBound == 2
MaxWindow == 0
MaxUtc == 2
MaxTtl == 1
MaxValue == 1
MaxTokLen == 5
MaxLimit == 2
MaxTopics == 2

Threads == 1..NumThreads
Identities == {"x", "y"}

VARIABLES
  \* ---- RateLimiter ----
  max_requests,     \* RateLimiter.max_requests
  window_seconds,   \* RateLimiter.window_seconds
  hits,             \* RateLimiter._hits : identity -> deque of timestamps
  lock,             \* RateLimiter._lock : 0 = free, else the holding thread
  mono,             \* time.monotonic()
  pc,               \* position of each caller inside hit()
  tok,              \* argument `token` of each caller
  now,              \* local `now` of each caller
  result,           \* outcome of each caller's last hit()
  entry,            \* bucket as the caller found it when it took the lock
  \* ---- cursor codec ----
  cursor_ttl_seconds, \* settings.cursor_ttl_seconds
  utc,              \* wall clock in seconds (time.time(), datetime.now)
  cPayload,         \* argument of encode_cursor
  cToken,           \* the token handed to decode_cursor
  cOrigin,          \* where cToken comes from
  cSigned,          \* time at which cToken was encoded
  cOut,             \* outcome of decode_cursor(cToken)
  \* ---- POST /api/recommend ----
  req,              \* the last request
  resp,             \* the response to it
  sess,             \* the pagination session the last request belongs to
  \* ---- catalog, filter_charities, select_daily_charities ----
  catalog,          \* the items of the list object CHARITY_POOL
  call,             \* the last direct call of an engine function
  before            \* the select_daily_charities call before the last one

limiterVars == <<max_requests, window_seconds, hits, lock, mono, pc, tok, now,
                 result, entry>>

codecVars == <<cPayload, cToken, cOrigin, cSigned, cOut>>

recommendVars == <<req, resp, sess>>

engineVars == <<catalog, call, before>>

vars == <<limiterVars, cursor_ttl_seconds, utc, codecVars, recommendVars,
          engineVars>>

(***************************************************************************)
(* RateLimiter                                                             *)
(***************************************************************************)
NoResult == [kind |-> "none", max_requests |-> 0, window_seconds |-> 0]
OkResult == [kind |-> "ok", max_requests |-> 0, window_seconds |-> 0]

\* RateLimitExceeded(max_requests, window_seconds)
RateLimitExceededSwapped(m, w) ==
  [kind |-> "RateLimitExceeded", max_requests |-> w, window_seconds |-> m]

RateLimitExceeded(m, w) ==
  [kind |-> "RateLimitExceeded", max_requests |-> m, window_seconds |-> w]

\* loop condition of `while bucket and now - bucket[0] > self.window_seconds`
StaleStrictlyOlder(bucket, n) ==
  bucket # <<>> /\ n - Head(bucket) > window_seconds + 1

Stale(bucket, n) == bucket # <<>> /\ n - Head(bucket) > window_seconds

\* the whole while loop as a function of the bucket
RECURSIVE Evict(_, _)
Evict(bucket, n) == IF Stale(bucket, n) THEN Evict(Tail(bucket), n) ELSE bucket

\* `if len(bucket) >= self.max_requests`
LimitReachedOffByOne(bucket) == Len(bucket) > max_requests

LimitReached(bucket) == Len(bucket) >= max_requests

InCS == {"evict", "append", "unlock"}

\* time passes on the monotonic clock
Tick ==
  /\ mono < MaxMono
  /\ mono' = mono + 1
  /\ UNCHANGED <<max_requests, window_seconds, hits, lock, pc, tok, now,
                 result, entry>>
  /\ UNCHANGED <<cursor_ttl_seconds, utc, codecVars, recommendVars, engineVars>>

\* hit(token): `now = monotonic()` is read before the lock is requested
Call(t, id) ==
  /\ pc[t] = "idle"
  /\ tok' = [tok EXCEPT ![t] = id]
  /\ now' = [now EXCEPT ![t] = mono]
  /\ pc' = [pc EXCEPT ![t] = "acquire"]
  /\ UNCHANGED <<max_requests, window_seconds, hits, lock, mono, result, entry>>
  /\ UNCHANGED <<cursor_ttl_seconds, utc, codecVars, recommendVars, engineVars>>

\* `with self._lock:` entered without waiting for the holder
AcquireNoLock(t) ==
  /\ pc[t] = "acquire"
  /\ lock' = t
  /\ entry' = [entry EXCEPT ![t] = hits[tok[t]]]
  /\ pc' = [pc EXCEPT ![t] = "evict"]
  /\ UNCHANGED <<max_requests, window_seconds, hits, mono, tok, now, result>>
  /\ UNCHANGED <<cursor_ttl_seconds, utc, codecVars, recommendVars, engineVars>>

\* `with self._lock:` entry; `bucket = self._hits[token]`
Acquire(t) ==
  /\ pc[t] = "acquire"
  /\ lock = 0
  /\ lock' = t
  /\ entry' = [entry EXCEPT ![t] = hits[tok[t]]]
  /\ pc' = [pc EXCEPT ![t] = "evict"]
  /\ UNCHANGED <<max_requests, window_seconds, hits, mono, tok, now, result>>
  /\ UNCHANGED <<cursor_ttl_seconds, utc, codecVars, recommendVars, engineVars>>

\* an iteration of the while loop: bucket.popleft()
EvictStep(t) ==
  /\ pc[t] = "evict"
  /\ Stale(hits[tok[t]], now[t])
  /\ hits' = [hits EXCEPT ![tok[t]] = Tail(@)]
  /\ UNCHANGED <<max_requests, window_seconds, lock, mono, pc, tok, now, result,
                 entry>>
  /\ UNCHANGED <<cursor_ttl_seconds, utc, codecVars, recommendVars, engineVars>>

\* the loop ends and the limit is tested; on failure RateLimitExceeded is
\* raised
Check(t) ==
  /\ pc[t] = "evict"
  /\ ~Stale(hits[tok[t]], now[t])
  /\ IF LimitReached(hits[tok[t]])
       THEN /\ result' = [result EXCEPT
                            ![t] = RateLimitExceeded(max_requests, window_seconds)]
            /\ pc' = [pc EXCEPT ![t] = "unlock"]
       ELSE /\ pc' = [pc EXCEPT ![t] = "append"]
            /\ UNCHANGED result
  /\ UNCHANGED <<max_requests, window_seconds, hits, lock, mono, tok, now,
                 entry>>
  /\ UNCHANGED <<cursor_ttl_seconds, utc, codecVars, recommendVars, engineVars>>

\* `bucket.append(now)`
AppendHitShared(t) ==
  /\ pc[t] = "append"
  /\ hits' = [id \in Identities |-> Append(hits[id], now[t])]
  /\ result' = [result EXCEPT ![t] = OkResult]
  /\ pc' = [pc EXCEPT ![t] = "unlock"]
  /\ UNCHANGED <<max_requests, window_seconds, lock, mono, tok, now, entry>>
  /\ UNCHANGED <<cursor_ttl_seconds, utc, codecVars, recommendVars, engineVars>>

AppendHit(t) ==
  /\ pc[t] = "append"
  /\ hits' = [hits EXCEPT ![tok[t]] = Append(@, now[t])]
  /\ result' = [result EXCEPT ![t] = OkResult]
  /\ pc' = [pc EXCEPT ![t] = "unlock"]
  /\ UNCHANGED <<max_requests, window_seconds, lock, mono, tok, now, entry>>
  /\ UNCHANGED <<cursor_ttl_seconds, utc, codecVars, recommendVars, engineVars>>

\* leaving the `with` block (normally or by the exception) releases the lock
Unlock(t) ==
  /\ pc[t] = "unlock"
  /\ lock' = 0
  /\ pc' = [pc EXCEPT ![t] = "idle"]
  /\ tok' = [tok EXCEPT ![t] = "x"]
  /\ now' = [now EXCEPT ![t] = 0]
  /\ result' = [result EXCEPT ![t] = NoResult]
  /\ entry' = [entry EXCEPT ![t] = <<>>]
  /\ UNCHANGED <<max_requests, window_seconds, hits, mono>>
  /\ UNCHANGED <<cursor_ttl_seconds, utc, codecVars, recommendVars, engineVars>>

NextLimiter ==
  \/ Tick
  \/ \E t \in Threads, id \in Identities : Call(t, id)
  \/ \E t \in Threads : Acquire(t)
  \/ \E t \in Threads : EvictStep(t)
  \/ \E t \in Threads : Check(t)
  \/ \E t \in Threads : AppendHit(t)
  \/ \E t \in Threads : Unlock(t)

\* hit(token) called while no other call is in progress
CallAlone(t, id) ==
  /\ \A u \in Threads : pc[u] = "idle"
  /\ Call(t, id)

NextSequential ==
  \/ Tick
  \/ \E t \in Threads, id \in Identities : CallAlone(t, id)
  \/ \E t \in Threads : Acquire(t)
  \/ \E t \in Threads : EvictStep(t)
  \/ \E t \in Threads : Check(t)
  \/ \E t \in Threads : AppendHit(t)
  \/ \E t \in Threads : Unlock(t)

(***************************************************************************)
(* Cursor codec: itsdangerous URLSafeTimedSerializer as used by            *)
(* encode_cursor / decode_cursor.  A token is a sequence of symbols: the   *)
(* serialized payload, the separator, the signing time, the separator and  *)
(* the signature over everything before the last separator.                *)
(***************************************************************************)
Dot == -1           \* the separator "." between the parts of a token
SecretKey == 7      \* settings.secret_key (with the cursor salt)

\* the keys of a cursor payload, in the order used by the serialization
KeyOrder == <<"issued_at", "page", "page_size", "signature">>
PayloadKeys == {KeyOrder[i] : i \in 1..Len(KeyOrder)}

\* position of the last separator of s (0 when there is none): rsplit(sep, 1)
RECURSIVE LastDotFrom(_, _)
LastDotFrom(s, i) ==
  IF i = 0 THEN 0 ELSE IF s[i] = Dot THEN i ELSE LastDotFrom(s, i - 1)

LastDot(s) == LastDotFrom(s, Len(s))

BeforeLastDot(s) == SubSeq(s, 1, LastDot(s) - 1)
AfterLastDot(s) == SubSeq(s, LastDot(s) + 1, Len(s))

\* serializer.dump_payload: the mapping as a sequence of key, value symbols
RECURSIVE DumpFrom(_, _)
DumpFrom(m, i) ==
  IF i > Len(KeyOrder) THEN <<>>
  ELSE (IF KeyOrder[i] \in DOMAIN m THEN <<i, m[KeyOrder[i]]>> ELSE <<>>)
         \o DumpFrom(m, i + 1)

DumpPayload(m) == DumpFrom(m, 1)

\* serializer.load_payload: only a well-formed serialization can be read back
WellFormedPayload(body) ==
  /\ Len(body) % 2 = 0
  /\ \A j \in 1..(Len(body) \div 2) :
       /\ body[2*j - 1] \in 1..Len(KeyOrder)
       /\ body[2*j] >= 0
       /\ j > 1 => body[2*j - 3] < body[2*j - 1]

LoadPayload(body) ==
  LET n == Len(body) \div 2
      keys == {KeyOrder[body[2*j - 1]] : j \in 1..n}
  IN [k \in keys |->
        LET j == CHOOSE j \in 1..n : KeyOrder[body[2*j - 1]] = k
        IN body[2*j]]

\* Signer.get_signature: keyed digest of the signed value, free of separators
GetSignature(value) ==
  <<SecretKey>> \o [i \in 1..Len(value) |-> value[i] + SecretKey + 1]

\* TimestampSigner.sign: value "." timestamp "." signature
SignToken(body, t) ==
  LET value == body \o <<Dot, t>>
  IN value \o <<Dot>> \o GetSignature(value)

\* encode_cursor(payload) at time t
EncodeCursorKeepIssuedAt(payload, t) ==
  LET enriched == [k \in DOMAIN payload \cup {"issued_at"} |->
                     IF k \in DOMAIN payload THEN payload[k] ELSE t]
  IN SignToken(DumpPayload(enriched), t)

EncodeCursor(payload, t) ==
  LET enriched == [k \in DOMAIN payload \cup {"issued_at"} |->
                     IF k = "issued_at" THEN t ELSE payload[k]]
  IN SignToken(DumpPayload(enriched), t)

\* Signer.unsign: "ok" with the signed value, or BadSignature with the
\* payload the exception carries (empty when there is no separator)
SignerUnsign(token) ==
  IF LastDot(token) = 0
    THEN [ok |-> FALSE, value |-> <<>>]
    ELSE [ok |-> GetSignature(BeforeLastDot(token)) = AfterLastDot(token),
          value |-> BeforeLastDot(token)]

VerifySignature(token) == SignerUnsign(token).ok

\* TimestampSigner.unsign(token, max_age) at time t: the exception raised,
\* or "ok" with the payload bytes
TimestampUnsign(token, t, max_age) ==
  LET r == SignerUnsign(token)
      signed == r.value
      ts == AfterLastDot(signed)
      ts_ok == Len(ts) = 1 /\ ts[1] >= 0
      age == t - ts[1]
  IN IF LastDot(signed) = 0
       THEN [exc |-> IF ~r.ok THEN "BadSignature" ELSE "BadTimeSignature",
             body |-> <<>>]
     ELSE IF ~r.ok THEN [exc |-> "BadTimeSignature", body |-> <<>>]
     ELSE IF ~ts_ok THEN [exc |-> "BadTimeSignature", body |-> <<>>]
     ELSE IF age > max_age \/ age < 0
       THEN [exc |-> "SignatureExpired", body |-> <<>>]
     ELSE [exc |-> "ok", body |-> BeforeLastDot(signed)]

\* TimedSerializer.loads(token, max_age)
SerializerLoads(token, t, max_age) ==
  LET u == TimestampUnsign(token, t, max_age)
  IN IF u.exc # "ok" THEN [exc |-> u.exc, value |-> <<>>]
     ELSE IF ~WellFormedPayload(u.body) THEN [exc |-> "BadPayload", value |-> <<>>]
     ELSE [exc |-> "ok", value |-> LoadPayload(u.body)]

\* SignatureExpired is a BadTimeSignature, BadTimeSignature is a BadSignature
IsBadTimeSignatureOnly(e) == e = "BadTimeSignature"

IsBadTimeSignature(e) == e \in {"BadTimeSignature", "SignatureExpired"}
IsBadSignature(e) == e \in {"BadSignature", "BadTimeSignature", "SignatureExpired"}

\* decode_cursor(token) at time t:
\*   "payload" = the mapping is returned, "expired" = None is returned,
\*   "ValueError" = ValueError('Invalid cursor signature') is raised,
\*   otherwise the exception that escapes
DecodeCursor(token, t, ttl) ==
  LET r == SerializerLoads(token, t, ttl)
  IN IF r.exc = "ok" THEN [kind |-> "payload", value |-> r.value]
     ELSE IF IsBadTimeSignature(r.exc) THEN [kind |-> "expired", value |-> <<>>]
     ELSE IF IsBadSignature(r.exc) THEN [kind |-> "ValueError", value |-> <<>>]
     ELSE [kind |-> r.exc, value |-> <<>>]

(***************************************************************************)
(* Recommendation engine (main.py)                                         *)
(*                                                                         *)
(* Strings that are only compared are strings; strings that are ordered,   *)
(* searched or trimmed are sequences of character codes: 0 is the blank,   *)
(* 1..9 are lower-case letters and 11..19 the same letters in upper case.  *)
(* None is the string "<None>" for scalar answers and <<>> for a location  *)
(* (normalize_location never returns an empty string).                     *)
(***************************************************************************)
None == "<None>"
Falsy(v) == v \in {None, ""}

\* the catalog: api/app/data.py is not part of the sources; the charities
\* carry the fields filter_charities reads
CHARITY_POOL == <<
  [ein |-> 1, name |-> 3, issue_family |-> "health",
   impact_modes |-> {"direct"}, geographies |-> {"global"},
   location |-> <<11, 1>>, topics |-> {1, 2}],
  [ein |-> 2, name |-> 1, issue_family |-> "health",
   impact_modes |-> {"direct", "research"}, geographies |-> {"us"},
   location |-> <<2>>, topics |-> {2}],
  [ein |-> 3, name |-> 2, issue_family |-> "education",
   impact_modes |-> {"direct"}, geographies |-> {"us"},
   location |-> <<1, 2>>, topics |-> {1}],
  [ein |-> 4, name |-> 5, issue_family |-> "education",
   impact_modes |-> {"research"}, geographies |-> {"global"},
   location |-> <<2>>, topics |-> {}],
  [ein |-> 5, name |-> 4, issue_family |-> "environment",
   impact_modes |-> {"direct"}, geographies |-> {"us", "global"},
   location |-> <<12, 1>>, topics |-> {1, 2}] >>

ISSUE_TO_NTEE ==
  [i \in {"health", "education", "environment", "human_services", "arts",
          "international", "animals", "other"} |->
     CASE i = "health" -> "E70"
       [] i = "education" -> "B82"
       [] i = "environment" -> "C32"
       [] i = "human_services" -> "K30"
       [] i = "arts" -> "A20"
       [] i = "international" -> "Q35"
       [] i = "animals" -> "D30"
       [] OTHER -> "Z99"]

\* answer_map.get(question_id): the value of the last answer to the question
AnswerGet(answers, q, default) ==
  IF \E i \in 1..Len(answers) : answers[i].question_id = q
    THEN LET i == CHOOSE i \in 1..Len(answers) :
                    /\ answers[i].question_id = q
                    /\ \A j \in (i+1)..Len(answers) : answers[j].question_id # q
         IN answers[i].value
    ELSE default

\* ensure_list: a topics answer is absent, one string or a list of strings
EnsureList(value) ==
  IF value.kind = "none" THEN <<>>
  ELSE IF value.kind = "list" THEN value.items
  ELSE <<value.item>>

\* str.strip()
RECURSIVE LStrip(_)
LStrip(str) == IF str # <<>> /\ Head(str) = 0 THEN LStrip(Tail(str)) ELSE str

RECURSIVE RStrip(_)
RStrip(str) ==
  IF str # <<>> /\ str[Len(str)] = 0
    THEN RStrip(SubSeq(str, 1, Len(str) - 1)) ELSE str

\* normalize_location
NormalizeLocation(value) == RStrip(LStrip(value))

\* str.lower()
LowerChar(c) == IF c > 10 THEN c - 10 ELSE c
Lower(str) == [i \in 1..Len(str) |-> LowerChar(str[i])]

\* `needle in hay` for strings
Contains(needle, hay) ==
  \E k \in 0..(Len(hay) - Len(needle)) :
    \A i \in 1..Len(needle) : hay[k + i] = needle[i]

\* comparison of two sort keys <<number, number>>, as Python compares tuples
KeyLessEq(a, b) == a[1] < b[1] \/ (a[1] = b[1] /\ a[2] <= b[2])

\* sorted(items, key=...): stable; works on pairs [key, item]
RECURSIVE InsertKeyed(_, _)
InsertKeyed(x, sorted) ==
  IF sorted = <<>> THEN <<x>>
  ELSE IF KeyLessEq(Head(sorted).key, x.key)
    THEN <<Head(sorted)>> \o InsertKeyed(x, Tail(sorted))
    ELSE <<x>> \o sorted

RECURSIVE SortKeyed(_)
SortKeyed(seq) ==
  IF seq = <<>> THEN <<>>
  ELSE InsertKeyed(seq[Len(seq)], SortKeyed(SubSeq(seq, 1, Len(seq) - 1)))

Items(keyed) == [i \in 1..Len(keyed) |-> keyed[i].item]

\* sorted(topics)
SortedTopics(topics) ==
  Items(SortKeyed([i \in 1..Len(topics) |->
                     [key |-> <<topics[i], 0>>, item |-> topics[i]]]))

\* sha1(json.dumps(...)).hexdigest(): a collision-free code of the encoded
\* text, which tells apart every two different normalised parameter tuples
Vocabulary ==
  <<None, "", "health", "education", "environment", "arts", "direct", "us">>
StrCode(v) == CHOOSE i \in 1..Len(Vocabulary) : Vocabulary[i] = v

RECURSIVE SeqCode(_, _)
SeqCode(seq, base) ==
  IF seq = <<>> THEN 0
  ELSE SeqCode(SubSeq(seq, 1, Len(seq) - 1), base) * base + seq[Len(seq)] + 1

\* build_query_signature without sorted(topics)
BuildQuerySignatureUnsorted(issue, impact, geography, location, topics) ==
  (((StrCode(issue) * 8 + StrCode(impact)) * 8 + StrCode(geography)) * 4096
     + SeqCode(location, 16)) * 64 + SeqCode(topics, 4)

BuildQuerySignature(issue, impact, geography, location, topics) ==
  (((StrCode(issue) * 8 + StrCode(impact)) * 8 + StrCode(geography)) * 4096
     + SeqCode(location, 16)) * 64 + SeqCode(SortedTopics(topics), 4)

ToSet(seq) == {seq[i] : i \in 1..Len(seq)}

\* filter_charities.matches
MatchesIgnoringGeography(charity, issue_family, impact_mode, geography) ==
  /\ Falsy(issue_family) \/ charity.issue_family = issue_family
  /\ Falsy(impact_mode) \/ impact_mode \in charity.impact_modes

Matches(charity, issue_family, impact_mode, geography) ==
  /\ Falsy(issue_family) \/ charity.issue_family = issue_family
  /\ Falsy(impact_mode) \/ impact_mode \in charity.impact_modes
  /\ Falsy(geography) \/ geography \in charity.geographies

\* filter_charities.score: the first component of the sort key
ScoreValueCaseSensitive(charity, location, topics) ==
  (IF location # <<>> /\ Contains(location, charity.location)
     THEN 0 - 10 ELSE 0)
  - Cardinality(ToSet(topics) \cap charity.topics)

ScoreValue(charity, location, topics) ==
  (IF location # <<>> /\ Contains(Lower(location), Lower(charity.location))
     THEN 0 - 10 ELSE 0)
  - Cardinality(ToSet(topics) \cap charity.topics)

\* filter_charities
FilterCharitiesNoFallback(issue_family, impact_mode, geography, location, topics) ==
  LET matching(c) == Matches(c, issue_family, impact_mode, geography)
      pool == SelectSeq(catalog, matching)
      keyed == [i \in 1..Len(pool) |->
                  [key |-> <<ScoreValue(pool[i], location, topics), pool[i].name>>,
                   item |-> pool[i]]]
  IN Items(SortKeyed(keyed))

FilterCharities(issue_family, impact_mode, geography, location, topics) ==
  LET matching(c) == Matches(c, issue_family, impact_mode, geography)
      matched == SelectSeq(catalog, matching)
      pool == IF matched = <<>> THEN catalog ELSE matched
      keyed == [i \in 1..Len(pool) |->
                  [key |-> <<ScoreValue(pool[i], location, topics), pool[i].name>>,
                   item |-> pool[i]]]
  IN Items(SortKeyed(keyed))

ExpiredLine == "Cursor expired. Please submit the survey again for fresh results."

\* build_explain
BuildExplain(issue, impact, geography, location, topics, expired) ==
  [ntee |-> IF issue \in DOMAIN ISSUE_TO_NTEE THEN ISSUE_TO_NTEE[issue] ELSE "Z99",
   rationale |->
     (IF Falsy(issue) THEN <<>> ELSE <<[label |-> "Issue focus", value |-> issue]>>)
     \o (IF Falsy(impact) THEN <<>> ELSE <<[label |-> "Impact mode", value |-> impact]>>)
     \o (IF Falsy(geography) THEN <<>>
         ELSE <<[label |-> "Geography preference", value |-> geography]>>)
     \o (IF location = <<>> THEN <<>>
         ELSE <<[label |-> "Location hint", value |-> location]>>)
     \o (IF topics = <<>> THEN <<>>
         ELSE <<[label |-> "Topics matched", value |-> topics]>>)
     \o (IF expired THEN <<[label |-> ExpiredLine, value |-> <<>>]>> ELSE <<>>)]

(***************************************************************************)
(* encode_cursor / decode_cursor applied to arbitrary payloads and tokens  *)
(***************************************************************************)
Values == 0..MaxValue
Payloads == UNION {[K -> Values] : K \in SUBSET PayloadKeys}
TokenSymbols == {Dot, 0, 1}
ForeignTokens == UNION {[1..n -> TokenSymbols] : n \in 0..MaxTokLen}

NoOutcome == [kind |-> "none", value |-> <<>>]

\* a second passes on the wall clock
TickUtc ==
  /\ utc < MaxUtc
  /\ utc' = utc + 1
  /\ UNCHANGED <<limiterVars, cursor_ttl_seconds, codecVars, recommendVars, engineVars>>

\* token = encode_cursor(payload), for any payload mapping
CodecEncode ==
  /\ cOrigin = "none"
  /\ \E payload \in Payloads :
       /\ cPayload' = payload
       /\ cToken' = EncodeCursor(payload, utc)
  /\ cSigned' = utc
  /\ cOrigin' = "encoded"
  /\ UNCHANGED <<limiterVars, cursor_ttl_seconds, utc, cOut, recommendVars, engineVars>>

\* the holder of an encoded token alters one symbol of it
CodecTamper ==
  /\ cOrigin = "encoded"
  /\ \E i \in 1..Len(cToken), c \in TokenSymbols :
       /\ c # cToken[i]
       /\ cToken' = [cToken EXCEPT ![i] = c]
  /\ cOrigin' = "tampered"
  /\ cOut' = NoOutcome
  /\ UNCHANGED <<limiterVars, cursor_ttl_seconds, utc, cPayload, cSigned,
                 recommendVars, engineVars>>

\* a client presents a token that encode_cursor did not produce; without the
\* secret key it cannot carry a matching signature
CodecForeign ==
  /\ cOrigin = "none"
  /\ \E tk \in ForeignTokens :
       /\ ~VerifySignature(tk)
       /\ cToken' = tk
  /\ cOrigin' = "foreign"
  /\ UNCHANGED <<limiterVars, cursor_ttl_seconds, utc, cPayload, cSigned, cOut,
                 recommendVars, engineVars>>

\* decode_cursor(cToken) now
CodecDecode ==
  /\ cOrigin # "none"
  /\ cOut' = DecodeCursor(cToken, utc, cursor_ttl_seconds)
  /\ UNCHANGED <<limiterVars, cursor_ttl_seconds, utc, cPayload, cToken,
                 cOrigin, cSigned, recommendVars, engineVars>>

NextCodec ==
  \/ TickUtc
  \/ CodecEncode
  \/ CodecTamper
  \/ CodecForeign
  \/ CodecDecode

(***************************************************************************)
(* POST /api/recommend                                                     *)
(***************************************************************************)
NoCursor == <<>>    \* cursor = None (an empty string is treated alike)
NoExplain == [ntee |-> "", rationale |-> <<>>]

\* HTTPException(status_code, detail)
HttpError(code, text) ==
  [status |-> code, detail |-> text, charities |-> <<>>, cursor |-> NoCursor,
   explain |-> NoExplain]

\* RecommendResponse(charities, cursor, explain)
RecommendResponse(list, next, expl) ==
  [status |-> 200, detail |-> "", charities |-> list, cursor |-> next,
   explain |-> expl]

\* dict.get(key, default)
Get(m, k, default) == IF k \in DOMAIN m THEN m[k] ELSE default

\* suggested[start:end]
Slice(seq, start, end) ==
  LET stop == IF end < Len(seq) THEN end ELSE Len(seq)
  IN IF start >= stop THEN <<>> ELSE SubSeq(seq, start + 1, stop)

\* `if end < total`
HasMoreInclusive(end, total) == end <= total

HasMore(end, total) == end < total

\* `decoded.get('signature') != query_signature`
CursorMismatchIgnored(decoded, query_signature) == FALSE

CursorMismatch(decoded, query_signature) ==
  Get(decoded, "signature", 0 - 1) # query_signature

\* `limit = int(decoded.get('page_size', limit))`
CursorPageSizeIgnored(decoded, limit) == limit

CursorPageSizeAtLeastLimit(decoded, limit) ==
  IF Get(decoded, "page_size", limit) < limit THEN limit
  ELSE Get(decoded, "page_size", limit)

CursorPageSize(decoded, limit) == Get(decoded, "page_size", limit)

\* lines 130-141: slice the ranked list and issue the next cursor
ServePage(issue, impact, geography, location, topics, sig, page_index, limit, t) ==
  LET suggested == FilterCharities(issue, impact, geography, location, topics)
      total == Len(suggested)
      start == page_index * limit
      end == start + limit
      next_cursor ==
        IF HasMore(end, total)
          THEN EncodeCursor([k \in {"page", "page_size", "signature"} |->
                               CASE k = "page" -> page_index + 1
                                 [] k = "page_size" -> limit
                                 [] OTHER -> sig], t)
          ELSE NoCursor
  IN RecommendResponse(Slice(suggested, start, end), next_cursor,
                       BuildExplain(issue, impact, geography, location, topics, FALSE))

\* recommend(payload) at time t
Recommend(answers, cursor, limit, t, ttl) ==
  IF answers = <<>> THEN HttpError(400, "answers are required")
  ELSE
    LET issue == AnswerGet(answers, "q_issue_family", None)
        impact == AnswerGet(answers, "q_impact_mode", None)
        geography == AnswerGet(answers, "q_geography", None)
        location == NormalizeLocation(AnswerGet(answers, "q_location", <<>>))
        topics == EnsureList(AnswerGet(answers, "q_topics", [kind |-> "none"]))
        sig == BuildQuerySignature(issue, impact, geography, location, topics)
        decoded == DecodeCursor(cursor, t, ttl)
    IN IF cursor = NoCursor
         THEN ServePage(issue, impact, geography, location, topics, sig, 0, limit, t)
       ELSE IF decoded.kind = "ValueError"
         THEN HttpError(400, "Invalid cursor signature")
       ELSE IF decoded.kind = "expired"
         THEN RecommendResponse(<<>>, NoCursor,
                BuildExplain(issue, impact, geography, location, topics, TRUE))
       ELSE IF decoded.kind # "payload"
         THEN HttpError(500, decoded.kind)
       ELSE IF CursorMismatch(decoded.value, sig)
         THEN HttpError(400, "Cursor does not match current answers.")
       ELSE ServePage(issue, impact, geography, location, topics, sig,
                      Get(decoded.value, "page", 0),
                      CursorPageSize(decoded.value, limit), t)

\* the survey answers a client may submit
AnswerChoices == <<
  <<[question_id |-> "q_issue_family", value |-> "education"],
    [question_id |-> "q_issue_family", value |-> "health"],
    [question_id |-> "q_topics", value |-> [kind |-> "one", item |-> 2]]>>,
  <<[question_id |-> "q_issue_family", value |-> "arts"],
    [question_id |-> "q_topics", value |-> [kind |-> "list", items |-> <<2, 1>>]]>>,
  <<[question_id |-> "q_issue_family", value |-> "arts"],
    [question_id |-> "q_topics", value |-> [kind |-> "list", items |-> <<1, 2>>]]>>,
  <<[question_id |-> "q_impact_mode", value |-> "direct"],
    [question_id |-> "q_location", value |-> <<0, 1>>]>>,
  <<>> >>

\* the parameters recommend derives from answers number a
IssueOf(a) == AnswerGet(AnswerChoices[a], "q_issue_family", None)
ImpactOf(a) == AnswerGet(AnswerChoices[a], "q_impact_mode", None)
GeographyOf(a) == AnswerGet(AnswerChoices[a], "q_geography", None)
LocationOf(a) == NormalizeLocation(AnswerGet(AnswerChoices[a], "q_location", <<>>))
TopicsOf(a) == EnsureList(AnswerGet(AnswerChoices[a], "q_topics", [kind |-> "none"]))
SignatureOf(a) ==
  BuildQuerySignature(IssueOf(a), ImpactOf(a), GeographyOf(a), LocationOf(a), TopicsOf(a))
RankedFor(a) ==
  FilterCharities(IssueOf(a), ImpactOf(a), GeographyOf(a), LocationOf(a), TopicsOf(a))

\* the cursors a client may send: none, the one it was last given, and that
\* one with its last symbol altered (a string without separator when it was
\* given none)
Garbled(cursor) ==
  IF cursor = NoCursor THEN <<0>>
  ELSE [cursor EXCEPT ![Len(cursor)] = @ + 1]

NoRequest == [answers |-> 0, cursor |-> NoCursor, limit |-> 0, at |-> 0,
              resumes |-> FALSE, issuedFor |-> 0, issuedAt |-> 0]
NoResponse == HttpError(0, "")
NoSession == [active |-> FALSE, answers |-> 0, page_size |-> 0, pages |-> <<>>,
              finished |-> FALSE]

\* one POST /api/recommend with answers number a, cursor cur and limit lim
PostRecommend(a, cur, lim) ==
  LET out == Recommend(AnswerChoices[a], cur, lim, utc, cursor_ttl_seconds)
      resuming == cur # NoCursor /\ cur = resp.cursor
      starts == cur = NoCursor
      continues ==
        /\ sess.active /\ ~sess.finished
        /\ resuming
        /\ a = sess.answers
        /\ utc - req.at <= cursor_ttl_seconds
  IN /\ req' = [answers |-> a, cursor |-> cur, limit |-> lim, at |-> utc,
                resumes |-> resuming,
                issuedFor |-> IF resuming THEN req.answers ELSE 0,
                issuedAt |-> IF resuming THEN req.at ELSE 0]
     /\ resp' = out
     /\ sess' =
          IF starts
            THEN [active |-> TRUE, answers |-> a, page_size |-> lim,
                  pages |-> <<out.charities>>,
                  finished |-> out.cursor = NoCursor]
          ELSE IF continues
            THEN [sess EXCEPT !.pages = Append(@, out.charities),
                              !.finished = out.cursor = NoCursor]
          ELSE NoSession
     /\ UNCHANGED <<limiterVars, cursor_ttl_seconds, utc, codecVars, engineVars>>

TickRecommend ==
  /\ utc < MaxUtc
  /\ utc' = utc + 1
  /\ UNCHANGED <<limiterVars, cursor_ttl_seconds, codecVars, req, resp, sess,
                 engineVars>>

NextRecommend ==
  \/ TickRecommend
  \/ \E a \in 1..Len(AnswerChoices), lim \in 1..MaxLimit :
       \E cur \in {NoCursor, resp.cursor, Garbled(resp.cursor)} :
         PostRecommend(a, cur, lim)

(***************************************************************************)
(* Direct calls of filter_charities and select_daily_charities.  A Python  *)
(* list is an object with an identity: an operation in place changes the   *)
(* items of the object it is applied to, whoever else refers to it.        *)
(***************************************************************************)
\* the module-level list CHARITY_POOL
CatalogObject == [id |-> "CHARITY_POOL", items |-> catalog]

\* list.copy(): a new list object with the same items
ListCopyAlias(obj) == obj

ListCopy(obj) == [id |-> "copy", items |-> obj.items]

\* datetime.utcnow().strftime('%Y-%m-%d'): the UTC calendar day of an instant
\* (a day of the model lasts SecondsPerDay ticks of the clock)
SecondsPerDay == 2
UtcDate(t) == t \div SecondsPerDay

\* random.Random(seed): the state of the generator after seeding with the
\* date string followed by the secret key
DailySeedOfInstant(t) == (t * 7 + SecretKey) % 16

DailySeed(t) == (UtcDate(t) * 7 + SecretKey) % 16

\* the generator: the next state, and the number below n drawn from a state
NextRandom(s) == (s * 5 + 3) % 16
RandBelow(s, n) == (s \div 2) % n

Swap(items, i, j) == [items EXCEPT ![i] = items[j], ![j] = items[i]]

\* random.shuffle: for i from the last index down to the second,
\* exchange x[i] with x[randbelow(i + 1)]
RECURSIVE ShuffleFrom(_, _, _)
ShuffleFrom(items, i, s) ==
  IF i < 2 THEN items
  ELSE ShuffleFrom(Swap(items, i, RandBelow(s, i) + 1), i - 1, NextRandom(s))

\* rng.shuffle(pool): in place
Shuffle(obj, seed) == [obj EXCEPT !.items = ShuffleFrom(@, Len(@), seed)]

\* select_daily_charities(limit) at time t: the list returned, and the items
\* of CHARITY_POOL afterwards
SelectDailyCharities(limit, t) ==
  LET pool == ListCopy(CatalogObject)
      shuffled == Shuffle(pool, DailySeed(t))
  IN [out |-> Slice(shuffled.items, 0, limit),
      catalog |-> IF shuffled.id = CatalogObject.id THEN shuffled.items
                  ELSE catalog]

\* the arguments filter_charities may be called with
IssueChoices == {None, "", "health", "arts"}
ImpactChoices == {None, "direct"}
GeographyChoices == {None, "us"}
LocationHints == {<<>>, <<12>>}
TopicNames == {1, 2}
TopicSeqs == UNION {[1..n -> TopicNames] : n \in 0..MaxTopics}
\* Query(limit: ge=1, le=12) of GET /api/daily-picks
DailyLimits == (1..MaxLimit) \cup {12}

NoArgs == [issue_family |-> None, impact_mode |-> None, geography |-> None,
           location |-> <<>>, topics |-> <<>>]
NoCall == [op |-> "none", at |-> 0, limit |-> 0, args |-> NoArgs, out |-> <<>>]

\* filter_charities(issue_family, impact_mode, geography, location, topics):
\* the comprehension, CHARITY_POOL.copy() and sorted() all build new lists
FilterCall(issue_family, impact_mode, geography, location, topics) ==
  /\ call' = [op |-> "filter", at |-> 0, limit |-> 0,
              args |-> [issue_family |-> issue_family,
                        impact_mode |-> impact_mode,
                        geography |-> geography,
                        location |-> location,
                        topics |-> topics],
              out |-> FilterCharities(issue_family, impact_mode, geography,
                                      location, topics)]
  /\ before' = NoCall
  /\ UNCHANGED <<limiterVars, cursor_ttl_seconds, utc, codecVars,
                 recommendVars, catalog>>

\* select_daily_charities(limit), as GET /api/daily-picks calls it
DailyCall(limit) ==
  LET r == SelectDailyCharities(limit, utc)
  IN /\ call' = [op |-> "daily", at |-> utc, limit |-> limit,
                 args |-> NoArgs, out |-> r.out]
     /\ before' = (IF call.op \in {"daily", "recommend"} THEN call ELSE NoCall)
     /\ catalog' = r.catalog
     /\ UNCHANGED <<limiterVars, cursor_ttl_seconds, utc, codecVars,
                    recommendVars>>

\* POST /api/recommend without cursor: the page it returns comes from the
\* list filter_charities builds, sliced into a new list
RecommendCall(a, lim) ==
  /\ call' = [op |-> "recommend", at |-> 0, limit |-> lim, args |-> NoArgs,
              out |-> Recommend(AnswerChoices[a], NoCursor, lim, utc,
                                cursor_ttl_seconds).charities]
  /\ before' = NoCall
  /\ UNCHANGED <<limiterVars, cursor_ttl_seconds, utc, codecVars,
                 recommendVars, catalog>>

NextEngine ==
  \/ TickUtc
  \/ \E issue_family \in IssueChoices, impact_mode \in ImpactChoices,
        geography \in GeographyChoices, location \in LocationHints,
        topics \in TopicSeqs :
       FilterCall(issue_family, impact_mode, geography, location, topics)
  \/ \E limit \in DailyLimits : DailyCall(limit)
  \/ \E a \in 1..Len(AnswerChoices), lim \in 1..MaxLimit : RecommendCall(a, lim)

(***************************************************************************)
(* Properties of RateLimiter.hit                                           *)
(***************************************************************************)
Finished(t) == pc[t] = "unlock"
Succeeded(t) == Finished(t) /\ result[t].kind = "ok"
Rejected(t) == Finished(t) /\ result[t].kind = "RateLimitExceeded"

\* C1: a hit succeeds, appending its own timestamp, exactly when the bucket
\* left by the front eviction holds fewer than max_requests timestamps;
\* hence no bucket ever holds more than max_requests timestamps.
C1_HitSucceedsIffBelowLimit ==
  /\ \A id \in Identities : Len(hits[id]) <= max_requests
  /\ \A t \in Threads :
       Finished(t) =>
         /\ result[t].kind \in {"ok", "RateLimitExceeded"}
         /\ Succeeded(t) <=> Len(Evict(entry[t], now[t])) < max_requests
         /\ Succeeded(t) =>
              /\ hits[tok[t]] # <<>>
              /\ hits[tok[t]][Len(hits[tok[t]])] = now[t]

\* three hits on one identity with max_requests = 2 and nothing evicted:
\* two were recorded and the third is rejected
C1_Witness ==
  \E t \in Threads :
    /\ Rejected(t)
    /\ max_requests = 2
    /\ entry[t] = hits[tok[t]]
    /\ Len(hits[tok[t]]) = 2

\* C2: read-evict-check-append is one critical section: at most one caller is
\* inside it, the caller inside it holds the lock, a successful hit leaves
\* the bucket it found (after eviction) with exactly one more timestamp, and
\* no bucket exceeds max_requests.
C2_AtomicCriticalSection ==
  /\ \A t1, t2 \in Threads : (pc[t1] \in InCS /\ pc[t2] \in InCS) => t1 = t2
  /\ \A t \in Threads : pc[t] \in InCS => lock = t
  /\ \A t \in Threads :
       Succeeded(t) =>
         hits[tok[t]] = Append(Evict(entry[t], now[t]), now[t])
  /\ \A id \in Identities : Len(hits[id]) <= max_requests

\* two callers contend for the same identity: one is inside the critical
\* section, having appended, while the other waits for the lock
C2_Witness ==
  \E t1, t2 \in Threads :
    /\ t1 # t2
    /\ tok[t1] = tok[t2]
    /\ Succeeded(t1)
    /\ pc[t2] = "acquire"
    /\ Len(hits[tok[t1]]) = max_requests

\* C3: a rejected hit records nothing: the bucket is what eviction alone
\* leaves, the caller's timestamp is not added, and RateLimitExceeded carries
\* the configured max_requests and window_seconds.
C3_RejectedHitNotRecorded ==
  \A t \in Threads :
    Rejected(t) =>
      /\ hits[tok[t]] = Evict(entry[t], now[t])
      /\ result[t].max_requests = max_requests
      /\ result[t].window_seconds = window_seconds

\* a rejection at a limit that differs from the window length, of a caller
\* whose timestamp is not in the bucket
C3_Witness ==
  \E t \in Threads :
    /\ Rejected(t)
    /\ max_requests # window_seconds
    /\ max_requests >= 1
    /\ \A i \in 1..Len(hits[tok[t]]) : hits[tok[t]][i] # now[t]

IsSorted(seq) == \A i, j \in 1..Len(seq) : i < j => seq[i] <= seq[j]

\* the eviction step of t's hit is over and nothing has been appended yet
Evicted(t) == pc[t] = "append" \/ Rejected(t)

\* C17: in every reachable state, concurrent callers included, each bucket
\* is in non-decreasing order from front to back, and right after the
\* eviction step of a hit no timestamp left in the bucket is older than
\* window_seconds relative to that call's time.
C17_BucketsOrderedEvictionComplete ==
  /\ \A id \in Identities : IsSorted(hits[id])
  /\ \A t \in Threads :
       Evicted(t) =>
         \A i \in 1..Len(hits[tok[t]]) :
           now[t] - hits[tok[t]][i] <= window_seconds

\* C18: a step of hit changes no bucket other than the one of the identity
\* it was called with, whether the hit goes on to succeed or to fail.
C18_BucketsIsolatedPerIdentity ==
  [][\A id \in Identities :
       hits'[id] # hits[id] =>
         \E t \in Threads :
           /\ lock = t
           /\ tok[t] = id
           /\ pc[t] \in {"evict", "append"}]_vars

\* a hit on x has succeeded while the bucket of y is full
C18_Witness ==
  \E t \in Threads :
    /\ Succeeded(t)
    /\ tok[t] = "x"
    /\ max_requests = 2
    /\ Len(hits["x"]) = 1
    /\ Len(hits["y"]) = 2

\* the oldest timestamp of a non-empty bucket
Oldest(bucket) ==
  CHOOSE m \in ToSet(bucket) : \A x \in ToSet(bucket) : m <= x

\* C19: with max_requests >= 1 and calls made one after the other, a hit
\* made more than window_seconds after the oldest timestamp retained in the
\* identity's bucket succeeds, whatever hits were rejected in between.
C19_LockoutEndsWithTheWindow ==
  \A t \in Threads :
    (/\ Finished(t)
     /\ max_requests >= 1
     /\ entry[t] # <<>>
     /\ now[t] - Oldest(entry[t]) > window_seconds) => Succeeded(t)

\* the bucket was full, so that hits were being rejected, and the hit made
\* after the window of its oldest timestamp succeeds
C19_Witness ==
  \E t \in Threads :
    /\ Succeeded(t)
    /\ max_requests >= 1
    /\ Len(entry[t]) = max_requests
    /\ now[t] - Oldest(entry[t]) > window_seconds

(***************************************************************************)
(* Properties of the cursor codec                                          *)
(***************************************************************************)
Decoded == cOut.kind # "none"

\* C4: altering any single symbol of a validly encoded token makes
\* decode_cursor raise ValueError (InvalidSignature); it never returns None
\* (expired) and never returns a payload, whatever the age of the token.
C4_TamperedTokenIsInvalidSignature ==
  (cOrigin = "tampered" /\ Decoded) => cOut.kind = "ValueError"

\* C5: decode_cursor of a token that encode_cursor did not produce raises
\* ValueError (InvalidSignature), as for a tampered signature; it never
\* returns None, never returns a payload and raises nothing else.
C5_MalformedTokenIsInvalidSignature ==
  (cOrigin = "foreign" /\ Decoded) => cOut.kind = "ValueError"

\* C6 as stated: decoding an encoded payload within the TTL returns every
\* key and value of the original payload, plus issued_at, and nothing else.
C6_RoundTripKeepsEveryKey ==
  (cOrigin = "encoded" /\ Decoded /\ utc - cSigned <= cursor_ttl_seconds) =>
    /\ cOut.kind = "payload"
    /\ DOMAIN cOut.value = DOMAIN cPayload \cup {"issued_at"}
    /\ \A k \in DOMAIN cPayload : cOut.value[k] = cPayload[k]

\* C6 amended: decoding an encoded payload within the TTL returns every key
\* and value of the original payload other than issued_at, plus issued_at set
\* to the time of encoding (replacing an issued_at of the original), and
\* nothing else.
C6_RoundTripKeepsOtherKeys ==
  (cOrigin = "encoded" /\ Decoded /\ utc - cSigned <= cursor_ttl_seconds) =>
    /\ cOut.kind = "payload"
    /\ DOMAIN cOut.value = DOMAIN cPayload \cup {"issued_at"}
    /\ \A k \in DOMAIN cPayload \ {"issued_at"} : cOut.value[k] = cPayload[k]
    /\ cOut.value["issued_at"] = cSigned

\* a cursor payload decoded when exactly TTL seconds have elapsed
C6_Witness ==
  /\ cOrigin = "encoded"
  /\ cOut.kind = "payload"
  /\ DOMAIN cPayload = {"page", "page_size", "signature"}
  /\ cPayload["page"] # cPayload["page_size"]
  /\ utc - cSigned = cursor_ttl_seconds

(***************************************************************************)
(* Properties of POST /api/recommend                                       *)
(***************************************************************************)
Requested == req.answers # 0
HasAnswers(a) == a # 0 /\ AnswerChoices[a] # <<>>
DecodedRequestCursor == DecodeCursor(req.cursor, req.at, cursor_ttl_seconds)

\* the last request carried a cursor issued by the previous response, and
\* how old that cursor was
CursorAge == req.at - req.issuedAt
ExpiredResponse ==
  /\ resp.status = 200
  /\ resp.charities = <<>>
  /\ resp.cursor = NoCursor
  /\ resp.explain.rationale # <<>>
  /\ resp.explain.rationale[Len(resp.explain.rationale)].label = ExpiredLine

FreshCursor == req.resumes /\ CursorAge <= cursor_ttl_seconds

SameParameters(a, b) ==
  /\ IssueOf(a) = IssueOf(b)
  /\ ImpactOf(a) = ImpactOf(b)
  /\ GeographyOf(a) = GeographyOf(b)
  /\ LocationOf(a) = LocationOf(b)
  /\ SortedTopics(TopicsOf(a)) = SortedTopics(TopicsOf(b))

\* C8: with a validly signed, fresh cursor, results are served only if the
\* signature in the cursor equals the one computed from the request's
\* answers; on mismatch the request fails with HTTP 400, which is not the
\* expired outcome, with no charities and no next cursor.  Every page served
\* through a cursor is computed from the filter parameters the cursor was
\* issued for.
C8_CursorBoundToQuery ==
  FreshCursor =>
    /\ DecodedRequestCursor.kind = "payload"
    /\ DecodedRequestCursor.value["signature"] = SignatureOf(req.issuedFor)
    /\ SignatureOf(req.answers) # SignatureOf(req.issuedFor) =>
         /\ resp.status = 400
         /\ resp.charities = <<>>
         /\ resp.cursor = NoCursor
         /\ ~ExpiredResponse
    /\ resp.status = 200 =>
         /\ SignatureOf(req.answers) = SignatureOf(req.issuedFor)
         /\ SameParameters(req.answers, req.issuedFor)
         /\ \A i \in 1..Len(resp.charities) :
              \E j \in 1..Len(RankedFor(req.issuedFor)) :
                resp.charities[i] = RankedFor(req.issuedFor)[j]

\* a fresh cursor presented with answers of another query is refused
C8_Witness ==
  /\ FreshCursor
  /\ HasAnswers(req.answers)
  /\ SignatureOf(req.answers) # SignatureOf(req.issuedFor)
  /\ resp.status = 400
  /\ resp.detail = "Cursor does not match current answers."

\* the page the last request asked for
ServedPage ==
  /\ Requested
  /\ resp.status = 200
  /\ req.cursor = NoCursor \/ DecodedRequestCursor.kind = "payload"
PageIndex == IF req.cursor = NoCursor THEN 0 ELSE DecodedRequestCursor.value["page"]
PageSize ==
  IF req.cursor = NoCursor THEN req.limit ELSE DecodedRequestCursor.value["page_size"]

\* C9: a served page holds exactly the elements of the ranked list at
\* positions [page_index*page_size, page_index*page_size + page_size); a
\* next cursor is returned iff page_index*page_size + page_size < total, and
\* it encodes page_index + 1, the same page_size and the same signature.
C9_PageSliceAndNextCursor ==
  ServedPage =>
    LET full == RankedFor(req.answers)
        total == Len(full)
        start == PageIndex * PageSize
        end == start + PageSize
        stop == IF end < total THEN end ELSE total
        next == DecodeCursor(resp.cursor, req.at, cursor_ttl_seconds)
    IN /\ Len(resp.charities) = (IF stop > start THEN stop - start ELSE 0)
       /\ \A i \in 1..Len(resp.charities) : resp.charities[i] = full[start + i]
       /\ resp.cursor # NoCursor <=> end < total
       /\ resp.cursor # NoCursor =>
            /\ next.kind = "payload"
            /\ next.value["page"] = PageIndex + 1
            /\ next.value["page_size"] = PageSize
            /\ next.value["signature"] = SignatureOf(req.answers)

\* a page reached through a cursor, with more pages to come
C9_Witness ==
  /\ ServedPage
  /\ req.resumes
  /\ PageIndex = 1
  /\ resp.charities # <<>>
  /\ resp.cursor # NoCursor

SessionInOrder ==
  LET full == RankedFor(sess.answers)
      total == Len(full)
      ps == sess.page_size
      need == (total + ps - 1) \div ps
      n == Len(sess.pages)
  IN /\ resp.status = 200
     /\ n <= need
     /\ sess.finished <=> n = need
     /\ \A i \in 1..n :
          /\ sess.pages[i] # <<>>
          /\ sess.pages[i] =
               SubSeq(full, (i - 1) * ps + 1, IF i * ps < total THEN i * ps ELSE total)

ResumedPage ==
  /\ FreshCursor
  /\ HasAnswers(req.answers)
  /\ DecodedRequestCursor.kind = "payload"
  /\ resp.status = 200

RECURSIVE Concat(_)
Concat(seqs) == IF seqs = <<>> THEN <<>> ELSE Head(seqs) \o Concat(Tail(seqs))

\* C20: a page resumed with a valid, fresh, matching cursor is sliced with
\* the page_size of the cursor, which the next cursor carries on, whatever
\* the limit of the request; so the page size of a session stays the limit of
\* its first request and its pages, one after the other, make up the ranked
\* list from its start, nothing skipped and nothing repeated.
C20_PageSizeComesFromCursor ==
  /\ ResumedPage =>
       LET ps == DecodedRequestCursor.value["page_size"]
           pg == DecodedRequestCursor.value["page"]
           full == RankedFor(req.answers)
           last == IF pg * ps + ps < Len(full) THEN pg * ps + ps ELSE Len(full)
           next == DecodeCursor(resp.cursor, req.at, cursor_ttl_seconds)
       IN /\ resp.charities = SubSeq(full, pg * ps + 1, last)
          /\ resp.cursor # NoCursor =>
               /\ next.kind = "payload"
               /\ next.value["page_size"] = ps
          /\ (sess.active /\ Len(sess.pages) >= 2) => ps = sess.page_size
  /\ (sess.active /\ HasAnswers(sess.answers)) =>
       LET read == Concat(sess.pages)
       IN /\ Len(read) <= Len(RankedFor(sess.answers))
          /\ read = SubSeq(RankedFor(sess.answers), 1, Len(read))
          /\ \A i \in 1..Len(sess.pages) :
               Len(sess.pages[i]) = sess.page_size \/ i = Len(sess.pages)

\* a session begun with limit 1 goes on with limit 2 in its requests and
\* still advances by one charity per page
C20_Witness ==
  /\ ResumedPage
  /\ sess.active
  /\ sess.page_size = 1
  /\ req.limit = 2
  /\ Len(sess.pages) = 3
  /\ Len(resp.charities) = 1
  /\ resp.cursor # NoCursor

(***************************************************************************)
(* Properties of filter_charities, build_query_signature,                  *)
(* select_daily_charities and the catalog                                  *)
(***************************************************************************)
FilterCalled == call.op = "filter"

\* a filter is provided when it is neither absent nor empty
Provided(f) == f # None /\ f # ""

\* the charity satisfies every provided filter of the arguments
Satisfies(c, a) ==
  /\ Provided(a.issue_family) => c.issue_family = a.issue_family
  /\ Provided(a.impact_mode) => a.impact_mode \in c.impact_modes
  /\ Provided(a.geography) => a.geography \in c.geographies

Candidates(a) == {i \in 1..Len(catalog) : Satisfies(catalog[i], a)}
Occurrences(seq, x) == Cardinality({i \in 1..Len(seq) : seq[i] = x})

\* the hint occurs in the text when letters are compared without their case
SameLetter(a, b) == a = b \/ a = b + 10 \/ b = a + 10
OccursIgnoringCase(hint, text) ==
  \E k \in 0..(Len(text) - Len(hint)) :
    \A i \in 1..Len(hint) : SameLetter(text[k + i], hint[i])

\* the score of a charity for a location hint and requested topics
RankScore(c, a) ==
  0 - (IF a.location # <<>> /\ OccursIgnoringCase(a.location, c.location)
         THEN 10 ELSE 0)
    - Cardinality({tp \in c.topics : \E i \in 1..Len(a.topics) : a.topics[i] = tp})

\* seq is in ascending order of (score, name)
Ranked(seq, a) ==
  \A i, j \in 1..Len(seq) :
    i < j =>
      /\ RankScore(seq[i], a) <= RankScore(seq[j], a)
      /\ RankScore(seq[i], a) = RankScore(seq[j], a) => seq[i].name <= seq[j].name

\* C11: filter_charities never returns an empty sequence for a non-empty
\* catalog; when the provided filters match no catalog charity the result
\* is a ranked permutation of the whole catalog, every entry exactly once.
C11_FallbackToWholeCatalog ==
  (FilterCalled /\ catalog # <<>>) =>
    /\ call.out # <<>>
    /\ Candidates(call.args) = {} =>
         /\ Len(call.out) = Len(catalog)
         /\ \A i \in 1..Len(catalog) : Occurrences(call.out, catalog[i]) = 1
         /\ Ranked(call.out, call.args)

\* filters that no charity satisfies, with a location hint and topics that
\* rank the whole catalog
C11_Witness ==
  /\ FilterCalled
  /\ Candidates(call.args) = {}
  /\ call.args.location # <<>>
  /\ call.args.topics # <<>>
  /\ Len(call.out) = 5
  /\ call.out # catalog

\* C12: when at least one catalog charity satisfies every provided filter,
\* filter_charities returns exactly those charities, each exactly once; an
\* absent or empty filter excludes nothing.
C12_ExactlyTheMatchingCharities ==
  (FilterCalled /\ Candidates(call.args) # {}) =>
    /\ Len(call.out) = Cardinality(Candidates(call.args))
    /\ \A i \in 1..Len(catalog) :
         Occurrences(call.out, catalog[i]) =
           (IF i \in Candidates(call.args) THEN 1 ELSE 0)

\* all three filters provided, and only part of the catalog satisfies them
C12_Witness ==
  /\ FilterCalled
  /\ Provided(call.args.issue_family)
  /\ Provided(call.args.impact_mode)
  /\ Provided(call.args.geography)
  /\ Candidates(call.args) # {}
  /\ Len(call.out) = 1
  /\ call.out[1].geographies = {"us"}

\* C13: the output of filter_charities is in ascending order of (score,
\* name): the score is 0, minus 10 if a non-empty location hint occurs in the
\* charity's location whatever the case of the letters, minus the number of
\* distinct topics common to the request and the charity.
C13_OrderedByScoreThenName ==
  FilterCalled => Ranked(call.out, call.args)

\* a location hint that matches only when case is ignored, topics given
\* twice, a tie between two scores and a difference between two others
C13_Witness ==
  /\ FilterCalled
  /\ call.args.location = <<12>>
  /\ call.args.topics = <<1, 1>>
  /\ \E i, j \in 1..Len(call.out) :
       /\ i < j
       /\ RankScore(call.out[i], call.args) = RankScore(call.out[j], call.args)
       /\ call.out[i].name < call.out[j].name
  /\ \E i, j \in 1..Len(call.out) :
       RankScore(call.out[i], call.args) < RankScore(call.out[j], call.args)
  /\ \E i \in 1..Len(call.out) :
       /\ RankScore(call.out[i], call.args) <= 0 - 10
       /\ ~Contains(call.args.location, call.out[i].location)

\* the rearrangements of a sequence
Rearrangements(n) ==
  {p \in [1..n -> 1..n] : \A i, j \in 1..n : p[i] = p[j] => i = j}
Reordered(seq, p) == [i \in 1..Len(seq) |-> seq[p[i]]]

OnlyTopicOrderDiffers(a, b) ==
  /\ IssueOf(a) = IssueOf(b)
  /\ ImpactOf(a) = ImpactOf(b)
  /\ GeographyOf(a) = GeographyOf(b)
  /\ LocationOf(a) = LocationOf(b)
  /\ Len(TopicsOf(a)) = Len(TopicsOf(b))
  /\ \E p \in Rearrangements(Len(TopicsOf(a))) :
       TopicsOf(b) = Reordered(TopicsOf(a), p)

\* C14: build_query_signature gives the same signature for arguments that
\* differ only in the order of the topics, so a fresh cursor issued for one
\* topic order is accepted when the request is sent again with another.
C14_SignatureIgnoresTopicOrder ==
  HasAnswers(req.answers) =>
    /\ \A p \in Rearrangements(Len(TopicsOf(req.answers))) :
         BuildQuerySignature(IssueOf(req.answers), ImpactOf(req.answers),
                             GeographyOf(req.answers), LocationOf(req.answers),
                             Reordered(TopicsOf(req.answers), p))
           = SignatureOf(req.answers)
    /\ (FreshCursor /\ HasAnswers(req.issuedFor)
          /\ OnlyTopicOrderDiffers(req.issuedFor, req.answers)) =>
         /\ SignatureOf(req.answers) = SignatureOf(req.issuedFor)
         /\ resp.status = 200

\* a cursor issued for topics in one order, presented with the topics in
\* another order, yields the next page
C14_Witness ==
  /\ FreshCursor
  /\ HasAnswers(req.answers)
  /\ HasAnswers(req.issuedFor)
  /\ OnlyTopicOrderDiffers(req.issuedFor, req.answers)
  /\ TopicsOf(req.answers) # TopicsOf(req.issuedFor)
  /\ resp.status = 200
  /\ resp.charities # <<>>

DailyCalled == call.op = "daily"

\* C15: two calls of select_daily_charities on the same UTC date with the
\* same limit return the same ordered sequence, and every result consists of
\* min(limit, catalog size) distinct catalog charities.
C15_DailyPicksStableWithinDay ==
  DailyCalled =>
    /\ Len(call.out) = (IF call.limit < Len(catalog) THEN call.limit
                        ELSE Len(catalog))
    /\ \A i \in 1..Len(call.out) : Occurrences(catalog, call.out[i]) = 1
    /\ \A i, j \in 1..Len(call.out) : call.out[i] = call.out[j] => i = j
    /\ (/\ before.op = "daily"
        /\ UtcDate(before.at) = UtcDate(call.at)
        /\ before.limit = call.limit) => before.out = call.out

\* two calls at different instants of one day, with the same limit, whose
\* common result is not the head of the catalog
C15_Witness ==
  /\ DailyCalled
  /\ before.op = "daily"
  /\ before.at # call.at
  /\ UtcDate(before.at) = UtcDate(call.at)
  /\ before.limit = call.limit
  /\ call.limit = 2
  /\ call.out = before.out
  /\ call.out # SubSeq(catalog, 1, 2)

\* C16: after any sequence of filter_charities, select_daily_charities and
\* recommend calls the catalog holds the charities it held at process start,
\* in the same order.
C16_CatalogNeverMutated == catalog = CHARITY_POOL

\* recommend has served a page of the filtered and sorted list, and then
\* select_daily_charities has shuffled its list
C16_Witness ==
  /\ DailyCalled
  /\ before.op = "recommend"
  /\ before.out # <<>>
  /\ call.limit = 12
  /\ Len(call.out) = Len(catalog)
  /\ call.out # catalog

(***************************************************************************)
(* Specifications: the rate limiter under concurrent callers, the cursor   *)
(* codec on arbitrary payloads and tokens, and the recommend endpoint.     *)
(***************************************************************************)
InitLimiter ==
  /\ max_requests \in 0..MaxRequestsBound
  /\ window_seconds = MaxWindow
  /\ hits = [i \in Identities |-> <<>>]
  /\ lock = 0
  /\ mono = 0
  /\ pc = [t \in Threads |-> "idle"]
  /\ tok = [t \in Threads |-> "x"]
  /\ now = [t \in Threads |-> 0]
  /\ result = [t \in Threads |-> NoResult]
  /\ entry = [t \in Threads |-> <<>>]
  /\ cursor_ttl_seconds \in 1..MaxTtl
  /\ utc = 0
  /\ cPayload = <<>>
  /\ cToken = <<>>
  /\ cOrigin = "none"
  /\ cSigned = 0
  /\ cOut = NoOutcome
  /\ req = NoRequest
  /\ resp = NoResponse
  /\ sess = NoSession
  /\ catalog = CHARITY_POOL
  /\ call = NoCall
  /\ before = NoCall

SpecLimiter == InitLimiter /\ [][NextLimiter]_vars

SpecSequential == InitLimiter /\ [][NextSequential]_vars

InitCodec ==
  /\ max_requests = 0
  /\ window_seconds = 1
  /\ hits = [i \in Identities |-> <<>>]
  /\ lock = 0
  /\ mono = 0
  /\ pc = [t \in Threads |-> "idle"]
  /\ tok = [t \in Threads |-> "x"]
  /\ now = [t \in Threads |-> 0]
  /\ result = [t \in Threads |-> NoResult]
  /\ entry = [t \in Threads |-> <<>>]
  /\ cursor_ttl_seconds \in 1..MaxTtl
  /\ utc = 0
  /\ cPayload = <<>>
  /\ cToken = <<>>
  /\ cOrigin = "none"
  /\ cSigned = 0
  /\ cOut = NoOutcome
  /\ req = NoRequest
  /\ resp = NoResponse
  /\ sess = NoSession
  /\ catalog = CHARITY_POOL
  /\ call = NoCall
  /\ before = NoCall

SpecCodec == InitCodec /\ [][NextCodec]_vars

InitRecommend ==
  /\ max_requests = 0
  /\ window_seconds = 1
  /\ hits = [i \in Identities |-> <<>>]
  /\ lock = 0
  /\ mono = 0
  /\ pc = [t \in Threads |-> "idle"]
  /\ tok = [t \in Threads |-> "x"]
  /\ now = [t \in Threads |-> 0]
  /\ result = [t \in Threads |-> NoResult]
  /\ entry = [t \in Threads |-> <<>>]
  /\ cursor_ttl_seconds \in 1..MaxTtl
  /\ utc = 0
  /\ cPayload = <<>>
  /\ cToken = <<>>
  /\ cOrigin = "none"
  /\ cSigned = 0
  /\ cOut = NoOutcome
  /\ req = NoRequest
  /\ resp = NoResponse
  /\ sess = NoSession
  /\ catalog = CHARITY_POOL
  /\ call = NoCall
  /\ before = NoCall

SpecRecommend == InitRecommend /\ [][NextRecommend]_vars

InitEngine ==
  /\ max_requests = 0
  /\ window_seconds = 1
  /\ hits = [i \in Identities |-> <<>>]
  /\ lock = 0
  /\ mono = 0
  /\ pc = [t \in Threads |-> "idle"]
  /\ tok = [t \in Threads |-> "x"]
  /\ now = [t \in Threads |-> 0]
  /\ result = [t \in Threads |-> NoResult]
  /\ entry = [t \in Threads |-> <<>>]
  /\ cursor_ttl_seconds = MaxTtl
  /\ utc = 0
  /\ cPayload = <<>>
  /\ cToken = <<>>
  /\ cOrigin = "none"
  /\ cSigned = 0
  /\ cOut = NoOutcome
  /\ req = NoRequest
  /\ resp = NoResponse
  /\ sess = NoSession
  /\ catalog = CHARITY_POOL
  /\ call = NoCall
  /\ before = NoCall

SpecEngine == InitEngine /\ [][NextEngine]_vars

=============================================================================
